---- MODULE Spec2Model ----
(***************************************************************************)
(* Wake-on-LAN monitor (main.py): the magic-packet construction, the wake  *)
(* transmitter and the monitor loop of monitor_and_wake.                   *)
(*                                                                         *)
(* Strings are sequences of one-character strings, bytes are 0..255.       *)
(* Time is kept by timers: last_wol_sent_at holds the age of the recorded  *)
(* timestamp (datetime.now() - last_wol_sent_at, in seconds), which is the *)
(* only way the code uses it.  The clock is taken to be non-decreasing.    *)
(***************************************************************************)
EXTENDS Integers, Sequences, FiniteSets

\* Python's None for the optional locals; Some(v) is a value that is set
None == <<>>
Some(v) == <<v>>
\* no exception has been raised
NoException == "-"

\* ---------------------------------------------------------------- bounds
\* largest age a timer distinguishes (ages saturate here)
MaxAge == 3
\* most octet groups in a generated hardware address string
MaxGroups == 7
\* the state-change / wake-call counters saturate here
MaxCount == 4

Min(a, b) == IF a < b THEN a ELSE b

\* ------------------------------------------------------ str / bytes helpers
Digits == {"0", "1", "2", "3", "4", "5", "6", "7", "8", "9"}
LowerHex == {"a", "b", "c", "d", "e", "f"}
UpperHex == {"A", "B", "C", "D", "E", "F"}
Whitespace == {" "}

\* str.lower() on one character
LowerChar(c) ==
  CASE c = "A" -> "a" [] c = "B" -> "b" [] c = "C" -> "c"
    [] c = "D" -> "d" [] c = "E" -> "e" [] c = "F" -> "f"
    [] c = "G" -> "g" [] c = "L" -> "l" [] c = "W" -> "w"
    [] OTHER -> c

\* str.lower()
lower(s) == [i \in DOMAIN s |-> LowerChar(s[i])]

\* str.replace(ch, "")
replace(s, ch) == SelectSeq(s, LAMBDA c : c # ch)

\* value of one hexadecimal digit (either case)
HexVal(c) ==
  CASE c = "0" -> 0 [] c = "1" -> 1 [] c = "2" -> 2 [] c = "3" -> 3
    [] c = "4" -> 4 [] c = "5" -> 5 [] c = "6" -> 6 [] c = "7" -> 7
    [] c = "8" -> 8 [] c = "9" -> 9
    [] c \in {"a", "A"} -> 10 [] c \in {"b", "B"} -> 11
    [] c \in {"c", "C"} -> 12 [] c \in {"d", "D"} -> 13
    [] c \in {"e", "E"} -> 14 [] c \in {"f", "F"} -> 15

IsHex(c) == c \in Digits \cup LowerHex \cup UpperHex

Ok(v) == [err |-> FALSE, val |-> v]
ValueError == [err |-> TRUE, val |-> <<>>]

\* bytes.fromhex from position i on, acc being the bytes read so far:
\* whitespace between byte pairs is skipped, each byte is two hexadecimal
\* digits, anything else raises ValueError
RECURSIVE BytesFrom(_, _, _)
BytesFrom(s, i, acc) ==
  IF i > Len(s) THEN Ok(acc)
  ELSE IF s[i] \in Whitespace THEN BytesFrom(s, i + 1, acc)
  ELSE IF i + 1 <= Len(s) /\ IsHex(s[i]) /\ IsHex(s[i + 1])
       THEN BytesFrom(s, i + 2,
                      Append(acc, 16 * HexVal(s[i]) + HexVal(s[i + 1])))
  ELSE ValueError

\* bytes.fromhex
fromhex(s) == BytesFrom(s, 1, <<>>)

\* bytes * n
RECURSIVE Times(_, _)
Times(b, n) == IF n <= 0 THEN <<>> ELSE b \o Times(b, n - 1)

\* the test of line 11
BadLength(m) == Len(m) # 12

\* line 13 with a plausible slip: one repetition short
create_magic_packet_ShortRepeat(mac) ==
  LET m == lower(replace(replace(mac, ":"), "-"))
  IN  IF BadLength(m) THEN ValueError
      ELSE LET raw == fromhex(m)
           IN  IF raw.err THEN ValueError
               ELSE Ok(Times(<<255>>, 6) \o Times(raw.val, 15))

create_magic_packet(mac) ==
  LET m == lower(replace(replace(mac, ":"), "-"))
  IN  IF BadLength(m) THEN ValueError
      ELSE LET raw == fromhex(m)
           IN  IF raw.err THEN ValueError
               ELSE Ok(Times(<<255>>, 6) \o Times(raw.val, 16))

\* send_magic_packet, p being what create_magic_packet(mac) did on line 17
\* and io the outcome of the socket calls of lines 18-20: "ok", or the
\* OSError of socket(), setsockopt() or sendto().
\* Result: the exception raised, the datagrams transmitted, the outcome
\* of the socket calls made (NoCall when none was made), and how many
\* sockets the call opened and how many of them it closed again.
NoCall == "-"
SocketOutcomes == {"ok", "socket_fails", "setsockopt_fails", "sendto_fails"}

SendResult(e, w, io, o, c) ==
  [raised |-> e, wire |-> w, io |-> io, opened |-> o, closed |-> c]

\* lines 18-20 with a plausible slip: the OSError is caught and dropped
send_magic_packet_Swallow(p, io) ==
  IF p.err THEN SendResult("ValueError", {}, NoCall, 0, 0)
  ELSE IF io = "socket_fails" THEN SendResult(NoException, {}, io, 0, 0)
  ELSE IF io # "ok" THEN SendResult(NoException, {}, io, 1, 1)
  ELSE SendResult(NoException, {p.val}, io, 1, 1)

\* lines 18-20 with a plausible slip: no with block, s.close() as the last
\* statement
send_magic_packet_NoWith(p, io) ==
  IF p.err THEN SendResult("ValueError", {}, NoCall, 0, 0)
  ELSE IF io = "socket_fails" THEN SendResult("OSError", {}, io, 0, 0)
  ELSE IF io # "ok" THEN SendResult("OSError", {}, io, 1, 0)
  ELSE SendResult(NoException, {p.val}, io, 1, 1)

\* line 17 raises before a socket exists; a failing socket() opens none;
\* the with block of line 18 closes the socket however lines 19-20 end
send_magic_packet(p, io) ==
  IF p.err THEN SendResult("ValueError", {}, NoCall, 0, 0)
  ELSE IF io = "socket_fails" THEN SendResult("OSError", {}, io, 0, 0)
  ELSE IF io # "ok" THEN SendResult("OSError", {}, io, 1, 1)
  ELSE SendResult(NoException, {p.val}, io, 1, 1)

\* ------------------------------------------------------------ is_host_up
\* str(n) of an integer: its decimal digits, "-" first when negative
DigitOf(d) ==
  CASE d = 0 -> "0" [] d = 1 -> "1" [] d = 2 -> "2" [] d = 3 -> "3"
    [] d = 4 -> "4" [] d = 5 -> "5" [] d = 6 -> "6" [] d = 7 -> "7"
    [] d = 8 -> "8" [] d = 9 -> "9"

RECURSIVE Decimal(_)
Decimal(n) ==
  IF n < 10 THEN <<DigitOf(n)>>
  ELSE Append(Decimal(n \div 10), DigitOf(n % 10))

str(n) == IF n < 0 THEN <<"-">> \o Decimal(-n) ELSE Decimal(n)

\* round(n / 1000) of line 34: the quotient is a float, and round() takes
\* it to the nearest integer, a tie (n = 1000 k + 500, where the float is
\* exactly k + 0.5) to the even one
\* (first a variant with a plausible slip: a tie always goes up)
round_NoTie(n) ==
  IF n % 1000 >= 500 THEN (n \div 1000) + 1 ELSE n \div 1000

round(n) ==
  LET k == n \div 1000
      rest == n % 1000
  IN  IF rest < 500 THEN k
      ELSE IF rest > 500 THEN k + 1
      ELSE IF k % 2 = 0 THEN k ELSE k + 1

Max(a, b) == IF a >= b THEN a ELSE b

\* how one run of the ping command can end: with an exit status (0 a
\* reply, 1 none within the timeout, 2 another error such as an unknown
\* host), or with subprocess.run raising
PingOutcomes ==
  {"exit_0", "exit_1", "exit_2", "FileNotFoundError", "PermissionError"}
PingRaises == {"FileNotFoundError", "PermissionError"}

\* the command line of lines 30 and 35
Argv(count_flag, timeout_flag, timeout, host) ==
  [tool |-> "ping", count_flag |-> count_flag, count |-> <<"1">>,
   timeout_flag |-> timeout_flag, timeout |-> timeout, host |-> host]

\* lines 29-36: the command line for this platform
PingCommand(sys, host, timeout_ms) ==
  IF lower(sys) = <<"w", "i", "n", "d", "o", "w", "s">>
    THEN Argv("-n", "-w", str(timeout_ms), host)
    ELSE Argv("-c", "-W", str(Max(1, round(timeout_ms))), host)

ProbeResult(e, r, argv) == [raised |-> e, ret |-> r, argv |-> argv]

\* lines 27-39 with a plausible slip: no try/except around the run
is_host_up_NoExcept(sys, host, timeout_ms, o) ==
  LET argv == PingCommand(sys, host, timeout_ms)
  IN  IF o \in PingRaises THEN ProbeResult(o, FALSE, Some(argv))
      ELSE ProbeResult(NoException, o = "exit_0", Some(argv))

\* is_host_up(host, timeout_ms) on platform sys when the ping run ends as
\* o. Result: the exception that leaves the call, the value returned, and
\* the command line that was run
is_host_up(sys, host, timeout_ms, o) ==
  LET argv == PingCommand(sys, host, timeout_ms)
  IN  IF o \in PingRaises THEN ProbeResult(NoException, FALSE, Some(argv))
      ELSE ProbeResult(NoException, o = "exit_0", Some(argv))

\* ----------------------------------------------------------- configuration
\* str.strip(): leading and trailing whitespace removed
RECURSIVE lstrip(_)
lstrip(s) ==
  IF s # <<>> /\ s[1] \in Whitespace THEN lstrip(Tail(s)) ELSE s

RECURSIVE rstrip(_)
rstrip(s) ==
  IF s # <<>> /\ s[Len(s)] \in Whitespace
    THEN rstrip(SubSeq(s, 1, Len(s) - 1))
    ELSE s

strip(s) == lstrip(rstrip(s))

\* value of a string of decimal digits
RECURSIVE DecimalValue(_)
DecimalValue(s) ==
  IF s = <<>> THEN 0
  ELSE 10 * DecimalValue(SubSeq(s, 1, Len(s) - 1)) + HexVal(s[Len(s)])

\* int(s) of a string: surrounding whitespace is ignored, one sign may
\* come first, decimal digits must follow and nothing else
int(s) ==
  LET t == strip(s)
      signed == t # <<>> /\ t[1] \in {"+", "-"}
      digits == IF signed THEN Tail(t) ELSE t
  IN  IF digits = <<>> \/ \E i \in DOMAIN digits : digits[i] \notin Digits
        THEN ValueError
      ELSE IF signed /\ t[1] = "-" THEN Ok(-DecimalValue(digits))
      ELSE Ok(DecimalValue(digits))

Returns(v) == [raised |-> NoException, val |-> v]
Raises(e) == [raised |-> e, val |-> None]

\* line 111 with a plausible slip: the value is not stripped
getenv_str_NoStrip(env, name, default, required) ==
  LET value == IF env[name] = None THEN default ELSE env[name]
  IN  IF required /\ (value = None \/ value = Some(<<>>))
        THEN Raises("RuntimeError")
        ELSE Returns(value)

\* getenv_str(name, default, required) with os.environ being env; a value
\* is None or Some(string)
getenv_str(env, name, default, required) ==
  LET value == IF env[name] = None THEN default ELSE env[name]
  IN  IF required /\ (value = None \/ strip(value[1]) = <<>>)
        THEN Raises("RuntimeError")
        ELSE Returns(value)

\* getenv_int(name, default) with os.environ being env
getenv_int(env, name, default) ==
  LET raw == env[name]
  IN  IF raw = None THEN default
      ELSE IF int(raw[1]).err THEN default
      ELSE int(raw[1]).val

\* ------------------------------------------------------------------ state
VARIABLES
  environ,             \* os.environ after load_env_file: name -> None or Some
  system,              \* what platform.system() returns on this machine
  wol_server_ip,       \* parameter: the target host
  network_check_host,  \* parameter: the reference host
  wol_port,            \* parameter
  ping_timeout_ms,     \* parameter
  wol_server_mac,      \* parameter: the hardware address string
  check_interval_sec,  \* parameter
  wol_cooldown_sec,    \* parameter
  pc,                  \* the statement the program is at
  raised,              \* the exception that ended the program, if any
  network_up,          \* local of monitor_and_wake (unbound before line 61)
  wol_up,              \* local of monitor_and_wake (unbound before line 62)
  prev_wol_up,         \* local of monitor_and_wake
  last_wol_sent_at,    \* local of monitor_and_wake: None, or the timestamp's age
  sleep_left,          \* seconds the running time.sleep still has to wait
  packet,              \* what the last create_magic_packet call returned
  wire,                \* the datagrams transmitted so far
  out,                 \* the kinds of line printed during the current tick
  notices,             \* number of state-change lines printed (saturating)
  wol_calls,           \* number of send_magic_packet calls made (saturating)
  last_send_age,       \* None, or the age of the last transmitted datagram
  healthy_down,        \* "never", "first", "again": the ticks so far that
                       \* found the target down and the reference host up
  io_last,             \* outcome of the socket calls of the last send
  script,              \* scripted target probe results still to come
  tick_log,            \* the calls made so far in the current tick, in order
  sockets_open,        \* number of sockets opened and not yet closed
  ping_last,           \* how the last run of the ping command ended
  ping_argv            \* the command line of the last ping run

vars == <<environ, system, wol_server_ip, network_check_host, wol_port,
          ping_timeout_ms, wol_server_mac, check_interval_sec,
          wol_cooldown_sec, pc, raised, network_up, wol_up, prev_wol_up,
          last_wol_sent_at, sleep_left, packet, wire, out, notices, wol_calls,
          last_send_age, healthy_down, io_last, script, tick_log,
          sockets_open, ping_last, ping_argv>>

\* what monitor_and_wake never assigns
params == <<environ, system, wol_server_ip, network_check_host, wol_port,
            ping_timeout_ms, wol_server_mac, check_interval_sec,
            wol_cooldown_sec>>

\* what only a probe on its own assigns
ping == <<ping_last, ping_argv>>

\* ----------------------------------------------------------------- inputs
ValidMac == <<"A", "A", ":", "b", "b", ":", "0", "1", ":", "2", "3", ":",
              "4", "5", ":", "f", "E">>
ShortMac == <<"a", "a", "-", "b", "b", "-", "c", "c">>
BlankMac == <<"a", "a", "b", "b", "c", "c", "d", "d", "e", "e", " ", " ">>
MonitorMacs == {ValidMac, ShortMac, BlankMac}
TargetHost == <<"t">>
ReferenceHost == <<"r">>
Windows == <<"W", "i", "n", "d", "o", "w", "s">>
Linux == <<"L", "i", "n", "u", "x">>
Darwin == <<"D", "a", "r", "w", "i", "n">>
EnvNames == {"WOL_SERVER_IP", "WOL_SERVER_MAC", "NETWORK_CHECK_HOST",
             "BROADCAST_IP", "WOL_PORT", "PING_TIMEOUT_MS",
             "CHECK_INTERVAL_SEC", "WOL_COOLDOWN_SEC"}
CheckIntervals == {-1, 0, 1}
Cooldowns == {-1, 0, 2}

\* ------------------------------------------------------- monitor_and_wake
\* lines 57-59, for the parameters given
Locals(label, s) ==
  /\ pc = label
  /\ raised = NoException
  /\ network_up = FALSE
  /\ wol_up = FALSE
  /\ prev_wol_up = None
  /\ last_wol_sent_at = None
  /\ sleep_left = 0
  /\ packet = None
  /\ wire = {}
  /\ out = {}
  /\ notices = 0
  /\ wol_calls = 0
  /\ last_send_age = None
  /\ healthy_down = "never"
  /\ io_last = NoCall
  /\ script = s
  /\ tick_log = <<>>
  /\ sockets_open = 0
  /\ ping_last = NoCall
  /\ ping_argv = None

\* a call monitor_and_wake(ip, mac, host) with the keyword defaults of
\* line 47 for the broadcast address, the port and the probe timeout
Start(macs, intervals, cooldowns, label, s) ==
  /\ environ = [n \in EnvNames |-> None]
  /\ system = Linux
  /\ wol_server_ip = TargetHost
  /\ network_check_host = ReferenceHost
  /\ wol_port = 9
  /\ ping_timeout_ms = 1000
  /\ wol_server_mac \in macs
  /\ check_interval_sec \in intervals
  /\ wol_cooldown_sec \in cooldowns
  /\ Locals(label, s)

MonitorInit ==
  Start(MonitorMacs, CheckIntervals, Cooldowns, "probe_network", <<>>)

Running(label) == pc = label /\ raised = NoException

\* one entry of tick_log: the function called and what it was given
Call(name, host, arg) == [call |-> name, host |-> host, arg |-> arg]

Count(n) == Min(n + 1, MaxCount)

\* line 61: network_up = is_host_up(network_check_host, ping_timeout_ms)
ProbeNetworkReturns(r) ==
  /\ Running("probe_network")
  /\ network_up' = r
  /\ out' = {}
  /\ tick_log' = <<Call("is_host_up", network_check_host, ping_timeout_ms)>>
  /\ pc' = "probe_target"
  /\ UNCHANGED <<params, ping, sockets_open, raised, wol_up, prev_wol_up,
                 last_wol_sent_at, sleep_left, packet, wire, notices,
                 wol_calls, last_send_age, healthy_down, io_last>>

\* line 62 with a plausible slip: the target is probed only when the
\* reference host answered (network_up and is_host_up(...))
ProbeTargetReturns_ShortCircuit(r) ==
  /\ Running("probe_target")
  /\ wol_up' = (network_up /\ r)
  /\ healthy_down' = IF r \/ ~network_up THEN healthy_down
                     ELSE IF healthy_down = "never" THEN "first" ELSE "again"
  /\ tick_log' =
       IF network_up
         THEN Append(tick_log,
                     Call("is_host_up", wol_server_ip, ping_timeout_ms))
         ELSE tick_log
  /\ pc' = "state_change"
  /\ UNCHANGED <<params, ping, sockets_open, raised, network_up, prev_wol_up,
                 last_wol_sent_at, sleep_left, packet, wire, out, notices,
                 wol_calls, last_send_age, io_last>>

\* line 62: wol_up = is_host_up(wol_server_ip, ping_timeout_ms)
ProbeTargetReturns(r) ==
  /\ Running("probe_target")
  /\ wol_up' = r
  /\ healthy_down' = IF r \/ ~network_up THEN healthy_down
                     ELSE IF healthy_down = "never" THEN "first" ELSE "again"
  /\ pc' = "state_change"
  /\ tick_log' = Append(tick_log,
                        Call("is_host_up", wol_server_ip, ping_timeout_ms))
  /\ UNCHANGED <<params, ping, sockets_open, raised, network_up, prev_wol_up,
                 last_wol_sent_at, sleep_left, packet, wire, out, notices,
                 wol_calls, last_send_age, io_last>>

\* variants of line 64 with a plausible slip
Changed_NoInitial(prev, cur) == prev # None /\ Some(cur) # prev
Changed_OnlyInitial(prev, cur) == prev = None

\* the condition of line 64
Changed(prev, cur) == prev = None \/ Some(cur) # prev

\* lines 64-67
StateChange ==
  /\ Running("state_change")
  /\ IF Changed(prev_wol_up, wol_up)
       THEN /\ out' = out \cup {"state_change"}
            /\ notices' = Count(notices)
            /\ prev_wol_up' = Some(wol_up)
       ELSE UNCHANGED <<out, notices, prev_wol_up>>
  /\ pc' = "decide"
  /\ UNCHANGED <<params, ping, tick_log, sockets_open, raised, network_up,
                 wol_up, last_wol_sent_at, sleep_left, packet, wire,
                 wol_calls, last_send_age, healthy_down, io_last, script>>

\* variants of lines 74-77 with a plausible slip
cooldown_ok_Inverted(last, cooldown) == last = None \/ last[1] <= cooldown
cooldown_ok_NoneBlocked(last, cooldown) == last # None /\ last[1] >= cooldown
cooldown_ok_Strict(last, cooldown) == last = None \/ last[1] > cooldown

\* lines 74-77, with the elapsed time read off the timestamp's age
cooldown_ok(last, cooldown) == last = None \/ last[1] >= cooldown

\* variants of lines 69-85 with a plausible slip
Branch_NoOutageCheck(target, network, last, cooldown) ==
  IF target THEN "up"
  ELSE IF cooldown_ok(last, cooldown) THEN "send"
  ELSE "cooldown"
Branch_IgnoreTarget(target, network, last, cooldown) ==
  IF ~network THEN "skip"
  ELSE IF cooldown_ok(last, cooldown) THEN "send"
  ELSE "cooldown"

\* lines 69-85: the branch the tick takes
Branch(target, network, last, cooldown) ==
  IF target THEN "up"
  ELSE IF ~network THEN "skip"
  ELSE IF cooldown_ok(last, cooldown) THEN "send"
  ELSE "cooldown"

\* lines 69-85 with a plausible slip: finding the target up forgets the
\* last wake
Decide_ResetOnUp ==
  /\ Running("decide")
  /\ LET b == Branch(wol_up, network_up, last_wol_sent_at, wol_cooldown_sec)
     IN  /\ out' = IF b = "up" THEN out ELSE out \cup {b}
         /\ pc' = IF b = "send" THEN "send" ELSE "sleep"
         /\ last_wol_sent_at' = IF b = "up" THEN None ELSE last_wol_sent_at
  /\ UNCHANGED <<params, ping, tick_log, sockets_open, raised, network_up,
                 wol_up, prev_wol_up, sleep_left, packet, wire, notices,
                 wol_calls, last_send_age, healthy_down, io_last, script>>

\* lines 69-79 and 82-85
Decide ==
  /\ Running("decide")
  /\ LET b == Branch(wol_up, network_up, last_wol_sent_at, wol_cooldown_sec)
     IN  /\ out' = IF b = "up" THEN out ELSE out \cup {b}
         /\ pc' = IF b = "send" THEN "send" ELSE "sleep"
  /\ UNCHANGED <<params, ping, tick_log, sockets_open, raised, network_up,
                 wol_up, prev_wol_up, last_wol_sent_at, sleep_left, packet,
                 wire, notices, wol_calls, last_send_age, healthy_down,
                 io_last, script>>

\* line 80: send_magic_packet(wol_server_mac, ...)
Send ==
  /\ Running("send")
  /\ \E p \in {create_magic_packet(wol_server_mac)}, io \in SocketOutcomes :
       LET r == send_magic_packet(p, io)
       IN  /\ packet' = Some(p)
           /\ wire' = wire \cup r.wire
           /\ raised' = r.raised
           /\ io_last' = r.io
           /\ sockets_open' = sockets_open + r.opened - r.closed
           /\ last_send_age' = IF r.wire # {} THEN Some(0) ELSE last_send_age
           /\ out' = IF r.raised = NoException THEN out \cup {"sent"} ELSE out
           /\ pc' = IF r.raised = NoException THEN "record" ELSE pc
  /\ wol_calls' = Count(wol_calls)
  /\ tick_log' = Append(tick_log, Call("send_magic_packet", <<>>, wol_port))
  /\ UNCHANGED <<params, ping, network_up, wol_up, prev_wol_up,
                 last_wol_sent_at, sleep_left, notices, healthy_down, script>>

\* line 81: last_wol_sent_at = datetime.now()
Record ==
  /\ Running("record")
  /\ last_wol_sent_at' = Some(0)
  /\ pc' = "sleep"
  /\ tick_log' = Append(tick_log, Call("datetime.now", <<>>, 0))
  /\ UNCHANGED <<params, ping, sockets_open, raised, network_up, wol_up,
                 prev_wol_up, sleep_left, packet, wire, out, notices,
                 wol_calls, last_send_age, healthy_down, io_last, script>>

\* line 87: time.sleep(check_interval_sec) is called; a negative length
\* raises ValueError
Sleep ==
  /\ Running("sleep")
  /\ IF check_interval_sec < 0
       THEN raised' = "ValueError" /\ UNCHANGED <<pc, sleep_left>>
       ELSE /\ sleep_left' = check_interval_sec
            /\ pc' = "sleeping"
            /\ UNCHANGED raised
  /\ tick_log' = Append(tick_log, Call("time.sleep", <<>>, check_interval_sec))
  /\ UNCHANGED <<params, ping, sockets_open, network_up, wol_up, prev_wol_up,
                 last_wol_sent_at, packet, wire, out, notices, wol_calls,
                 last_send_age, healthy_down, io_last, script>>

\* line 87: time.sleep returns once the interval has passed; line 60 loops
SleepReturns ==
  /\ Running("sleeping")
  /\ sleep_left = 0
  /\ pc' = "probe_network"
  /\ UNCHANGED <<params, ping, tick_log, sockets_open, raised, network_up,
                 wol_up, prev_wol_up, last_wol_sent_at, sleep_left, packet,
                 wire, out, notices, wol_calls, last_send_age, healthy_down,
                 io_last, script>>

Older(age) == IF age = None THEN None ELSE Some(Min(age[1] + 1, MaxAge))

\* one second passes on the clock while the program runs
TimePasses ==
  /\ raised = NoException
  /\ last_wol_sent_at' = Older(last_wol_sent_at)
  /\ last_send_age' = Older(last_send_age)
  /\ sleep_left' = IF sleep_left > 0 THEN sleep_left - 1 ELSE 0
  /\ UNCHANGED <<params, ping, tick_log, sockets_open, pc, raised, network_up,
                 wol_up, prev_wol_up, packet, wire, out, notices, wol_calls,
                 healthy_down, io_last, script>>

\* an exception leaves is_host_up on line 61 or 62
ProbeRaises(e) ==
  /\ raised' = e
  /\ UNCHANGED <<params, ping, pc, network_up, wol_up, prev_wol_up,
                 last_wol_sent_at, sleep_left, packet, wire, out, notices,
                 wol_calls, last_send_age, healthy_down, io_last, script,
                 tick_log, sockets_open>>

\* line 61, the ping run ending in any of the ways it can
ProbeNetwork ==
  /\ Running("probe_network")
  /\ \E o \in PingOutcomes :
       \E r \in {is_host_up(system, network_check_host, ping_timeout_ms, o)} :
         IF r.raised = NoException
           THEN ProbeNetworkReturns(r.ret) /\ UNCHANGED script
           ELSE ProbeRaises(r.raised)

\* line 62, likewise
ProbeTarget ==
  /\ Running("probe_target")
  /\ \E o \in PingOutcomes :
       \E r \in {is_host_up(system, wol_server_ip, ping_timeout_ms, o)} :
         IF r.raised = NoException
           THEN ProbeTargetReturns(r.ret) /\ UNCHANGED script
           ELSE ProbeRaises(r.raised)

Init == MonitorInit

\* the statements of the loop of monitor_and_wake
Step ==
  \/ ProbeNetwork
  \/ ProbeTarget
  \/ StateChange
  \/ Decide
  \/ Send
  \/ Record
  \/ Sleep
  \/ SleepReturns

Next ==
  \/ ProbeNetwork
  \/ ProbeTarget
  \/ StateChange
  \/ Decide
  \/ Send
  \/ Record
  \/ Sleep
  \/ SleepReturns
  \/ TimePasses

Spec == Init /\ [][Next]_vars

\* the program keeps running and the clock keeps going
FairSpec == Spec /\ WF_vars(Step) /\ WF_vars(TimePasses)

\* ------------------------------------------- the five-tick probe scenario
Script == <<TRUE, TRUE, FALSE, FALSE, TRUE>>

ScenarioInit ==
  Start(MonitorMacs, CheckIntervals, Cooldowns, "probe_network", Script)

\* the reference host answers every probe of the scenario
ScriptedProbeNetwork ==
  script # <<>> /\ ProbeNetworkReturns(TRUE) /\ UNCHANGED script

\* the target host answers as scripted
ScriptedProbeTarget ==
  /\ script # <<>>
  /\ ProbeTargetReturns(Head(script))
  /\ script' = Tail(script)

ScenarioNext ==
  \/ ScriptedProbeNetwork
  \/ ScriptedProbeTarget
  \/ StateChange
  \/ Decide
  \/ Send
  \/ Record
  \/ Sleep
  \/ SleepReturns
  \/ TimePasses

ScenarioSpec == ScenarioInit /\ [][ScenarioNext]_vars

\* ---------------------------- the wake transmitter called on any address
\* octet groups the generated addresses are made of
Groups == {<<"0", "F">>, <<"a", "9">>, <<" ", " ">>, <<"g", "1">>}
Separators == {<<>>, <<":">>, <<"-">>}
MinGroups == 5

RECURSIVE Join(_, _)
Join(groups, sep) ==
  IF Len(groups) = 0 THEN <<>>
  ELSE IF Len(groups) = 1 THEN groups[1]
  ELSE groups[1] \o sep \o Join(Tail(groups), sep)

\* the address is MinGroups..MaxGroups groups joined by one separator
PacketInit ==
  \E n \in MinGroups..MaxGroups :
    \E g \in [1..n -> Groups], sep \in Separators :
      Start({Join(g, sep)}, {30}, {300}, "call", <<>>)

\* a call of create_magic_packet(mac) on its own
CallCreate ==
  /\ Running("call")
  /\ \E p \in {create_magic_packet(wol_server_mac)} :
       /\ packet' = Some(p)
       /\ raised' = IF p.err THEN "ValueError" ELSE NoException
  /\ pc' = "created"
  /\ UNCHANGED <<params, ping, tick_log, sockets_open, network_up, wol_up,
                 prev_wol_up, last_wol_sent_at, sleep_left, wire, out,
                 notices, wol_calls, last_send_age, healthy_down, io_last,
                 script>>

\* a call of send_magic_packet(mac)
CallSend ==
  /\ Running("call")
  /\ \E p \in {create_magic_packet(wol_server_mac)}, io \in SocketOutcomes :
       LET r == send_magic_packet(p, io)
       IN  /\ packet' = Some(p)
           /\ wire' = wire \cup r.wire
           /\ raised' = r.raised
           /\ io_last' = r.io
           /\ sockets_open' = sockets_open + r.opened - r.closed
           /\ out' = IF r.raised = NoException THEN out \cup {"sent"} ELSE out
  /\ pc' = "sent"
  /\ wol_calls' = Count(wol_calls)
  /\ tick_log' = Append(tick_log, Call("send_magic_packet", <<>>, wol_port))
  /\ UNCHANGED <<params, ping, network_up, wol_up, prev_wol_up,
                 last_wol_sent_at, sleep_left, notices, last_send_age,
                 healthy_down, script>>

PacketNext == CallCreate \/ CallSend

PacketSpec == PacketInit /\ [][PacketNext]_vars

\* ----------------------------------------------------------------- claims
AfterProbes == pc \in {"state_change", "decide", "send", "record", "sleep",
                       "sleeping"}
AfterDecision == pc \in {"record", "sleep", "sleeping"}

\* C1: as long as no tick has found the target down with the reference host
\* up, send_magic_packet has not been called, nothing was transmitted and
\* last_wol_sent_at is still None.
C1_NoWakeDuringOutage ==
  healthy_down = "never" =>
    /\ wol_calls = 0
    /\ wire = {}
    /\ last_wol_sent_at = None
    /\ pc \notin {"send", "record"}

\* several ticks went by, the target went down, up and down again, always
\* with the reference host down as well
C1_Witness ==
  /\ healthy_down = "never"
  /\ notices >= 3
  /\ "skip" \in out
  /\ pc = "sleeping"

\* a step that runs send_magic_packet to its end (return or raise)
SendRuns == pc = "send" /\ raised = NoException /\
            (pc' = "record" \/ raised' # NoException)

\* C2: a tick goes on to send, and a wake is sent, only when the recorded
\* timestamp is at least wol_cooldown_sec old, and so is the previous
\* datagram.
C2_CooldownRespected ==
  /\ [][(pc = "decide" /\ pc' = "send") =>
          (last_wol_sent_at # None =>
             last_wol_sent_at[1] >= wol_cooldown_sec)]_vars
  /\ [][SendRuns =>
          /\ last_wol_sent_at # None =>
               last_wol_sent_at[1] >= wol_cooldown_sec
          /\ last_send_age # None => last_send_age[1] >= wol_cooldown_sec]_vars

\* a second wake has gone out under a positive cooldown
C2_Witness ==
  /\ wol_cooldown_sec > 0
  /\ wol_calls >= 2
  /\ pc = "record"

\* a tick is blocked by the cooldown
C2_BlockedWitness ==
  /\ "cooldown" \in out
  /\ pc = "sleep"
  /\ ~wol_up /\ network_up

\* C4: the first tick that finds the target down and the reference host up
\* goes on to call send_magic_packet, and has called it once when it ends.
C4_FirstHealthyDownWakes ==
  /\ [][(pc = "decide" /\ pc' # "decide" /\ healthy_down = "first"
         /\ ~wol_up /\ network_up) => pc' = "send"]_vars
  /\ []((healthy_down = "first" /\
         (AfterDecision \/ (pc = "send" /\ raised # NoException)))
        => wol_calls = 1)

\* the first such tick came after the target had been up and down before,
\* under a positive cooldown
C4_Witness ==
  /\ healthy_down = "first"
  /\ ~wol_up /\ network_up
  /\ notices >= 3
  /\ wol_cooldown_sec > 0
  /\ pc = "record"

\* C6: in a tick whose target probe returned True, send_magic_packet is not
\* called.
C6_NoWakeWhenUp ==
  wol_up => pc \notin {"send", "record"} /\ out \cap {"send", "sent"} = {}

\* the target is up in a tick that would otherwise be free to wake
C6_Witness ==
  /\ wol_up /\ network_up
  /\ pc = "sleep"
  /\ last_wol_sent_at # None
  /\ cooldown_ok(last_wol_sent_at, wol_cooldown_sec)

\* C7: line 64-67 print a state-change line exactly when prev_wol_up is
\* None or differs from the probe result, and afterwards prev_wol_up is the
\* probe result of the tick.
C7_StateChangeNotice ==
  /\ [][(pc = "state_change" /\ pc' = "decide") =>
          /\ ("state_change" \in out') <=>
               (prev_wol_up = None \/ prev_wol_up # Some(wol_up))
          /\ prev_wol_up' = Some(wol_up)]_vars
  /\ [](AfterProbes /\ pc # "state_change" => prev_wol_up = Some(wol_up))

\* a tick without a state change, after one with
C7_Witness ==
  /\ pc = "decide"
  /\ notices = 1
  /\ "state_change" \notin out
  /\ prev_wol_up = Some(wol_up)

\* ---- the target stays down, the reference host stays up, sends succeed
\* the addresses send_magic_packet accepts
SendableMacs == {m \in MonitorMacs : ~create_magic_packet(m).err}

LiveInit ==
  Start(SendableMacs, CheckIntervals, Cooldowns, "probe_network", <<>>)

ProbeNetworkUp == ProbeNetworkReturns(TRUE) /\ UNCHANGED script
ProbeTargetDown == ProbeTargetReturns(FALSE) /\ UNCHANGED script
SendSucceeds == Send /\ raised' = NoException

LiveStep ==
  \/ ProbeNetworkUp
  \/ ProbeTargetDown
  \/ StateChange
  \/ Decide
  \/ SendSucceeds
  \/ Record
  \/ Sleep
  \/ SleepReturns

LiveNext == LiveStep \/ TimePasses

\* the program keeps running and the clock keeps going
LiveSpec ==
  LiveInit /\ [][LiveNext]_vars /\ WF_vars(LiveStep) /\ WF_vars(TimePasses)

\* C3 (as claimed): if the target stays down, the reference host stays up
\* and no send fails, then wakes are sent again and again.
C3_WakesInfinitelyOften == []<>(pc = "record")

\* C3, first half: a tick that finds the target down and the reference host
\* up with the timestamp at least wol_cooldown_sec old calls
\* send_magic_packet, and a send that returns renews the timestamp.
C3_EligibleTickWakes ==
  /\ [][(pc = "decide" /\ pc' # "decide" /\ ~wol_up /\ network_up
         /\ last_wol_sent_at # None
         /\ last_wol_sent_at[1] >= wol_cooldown_sec) => pc' = "send"]_vars
  /\ [][(pc = "record" /\ pc' # "record") => last_wol_sent_at' = Some(0)]_vars

\* C3, second half for the poll intervals that time.sleep accepts
C3_WakesInfinitelyOftenIfSleepWorks ==
  check_interval_sec >= 0 => []<>(pc = "record")

\* the k-th tick of the scenario has made its decision and goes to sleep
TickDone(k) ==
  /\ Len(script) = Len(Script) - k
  /\ pc \in {"sleep", "sleeping"}
  /\ raised = NoException

\* C5 (as claimed): after the five scripted ticks three state-change lines
\* were printed and send_magic_packet was called exactly once.
C5_ThreeNoticesOneWake ==
  TickDone(5) => notices = 3 /\ wol_calls = 1

\* C5 (amended): three state-change lines; one wake on the first Down tick,
\* and a second one on the second Down tick exactly when the recorded
\* timestamp is at least wol_cooldown_sec old by then.
C5_ThreeNoticesWakePerCooldown ==
  /\ [](TickDone(1) \/ TickDone(2) => notices = 1 /\ wol_calls = 0)
  /\ [](TickDone(3) => notices = 2 /\ wol_calls = 1 /\ "sent" \in out)
  /\ [][(pc = "decide" /\ pc' # "decide" /\ Len(script) = 1) =>
          /\ last_wol_sent_at # None
          /\ pc' = "send" <=> last_wol_sent_at[1] >= wol_cooldown_sec]_vars
  /\ [](TickDone(4) =>
          /\ notices = 2
          /\ \/ "cooldown" \in out /\ wol_calls = 1
             \/ "sent" \in out /\ wol_calls = 2)
  /\ [](TickDone(5) => notices = 3 /\ wol_calls \in {1, 2}
                        /\ out = {"state_change"})

\* the scenario ran to its end with a single wake
C5_Witness ==
  /\ TickDone(5)
  /\ notices = 3
  /\ wol_calls = 1

\* the scenario ran to its end with a wake on each Down tick
C5_TwoWakesWitness ==
  /\ TickDone(5)
  /\ wol_calls = 2

\* the address normalizes to exactly 12 hexadecimal characters
Normalized(mac) == lower(replace(replace(mac, ":"), "-"))
Hex12(mac) ==
  /\ Len(Normalized(mac)) = 12
  /\ \A i \in 1..12 : Normalized(mac)[i] \in Digits \cup LowerHex

Returned == pc \in {"created", "sent"}

\* C8 (as claimed): for an address that does not normalize to 12
\* hexadecimal characters create_magic_packet raises and nothing is sent.
C8_InvalidAddressRejected ==
  (Returned /\ ~Hex12(wol_server_mac)) =>
    /\ packet = Some(ValueError)
    /\ raised = "ValueError"
    /\ wire = {}

\* C8, the part that holds: an address whose normalized form is not 12
\* characters long, or holds a character that is neither a hexadecimal
\* digit nor whitespace, is rejected and nothing is sent.
C8_BadLengthOrDigitRejected ==
  (Returned /\
   (Len(Normalized(wol_server_mac)) # 12 \/
    \E i \in DOMAIN Normalized(wol_server_mac) :
      Normalized(wol_server_mac)[i] \notin Digits \cup LowerHex \cup Whitespace))
  => /\ packet = Some(ValueError)
     /\ raised = "ValueError"
     /\ wire = {}

\* the j-th raw byte of a 12-digit address
RawByte(mac, j) ==
  16 * HexVal(Normalized(mac)[2 * j - 1]) + HexVal(Normalized(mac)[2 * j])

\* C9: for an address of 12 hexadecimal digits create_magic_packet returns
\* 102 bytes, six 0xFF and then sixteen times the six raw address bytes.
C9_PacketLayout ==
  (Returned /\ Hex12(wol_server_mac)) =>
    /\ packet # None
    /\ ~packet[1].err
    /\ Len(packet[1].val) = 102
    /\ \A i \in 1..6 : packet[1].val[i] = 255
    /\ \A k \in 0..15 : \A j \in 1..6 :
         packet[1].val[6 + 6 * k + j] = RawByte(wol_server_mac, j)

\* a valid address with separators and letters of both cases was converted
C9_Witness ==
  /\ pc = "created"
  /\ Hex12(wol_server_mac)
  /\ \E i \in DOMAIN wol_server_mac : wol_server_mac[i] = ":"
  /\ \E i \in DOMAIN wol_server_mac : wol_server_mac[i] = "F"
  /\ \E i \in DOMAIN wol_server_mac : wol_server_mac[i] = "a"

\* C10: when a socket call of send_magic_packet fails, the OSError ends
\* monitor_and_wake at line 80: nothing runs afterwards, and the failing
\* call neither transmits nor sets last_wol_sent_at.
C10_SendFailureIsFatal ==
  /\ [](io_last \notin {NoCall, "ok"} => raised = "OSError" /\ pc = "send")
  /\ [][raised # "OSError"]_vars
  /\ [][raised' = "OSError" =>
          /\ last_wol_sent_at' = last_wol_sent_at
          /\ wire' = wire]_vars

\* a send failed in a later tick, after an earlier wake had gone out
C10_Witness ==
  /\ raised = "OSError"
  /\ io_last = "sendto_fails"
  /\ wol_calls >= 2
  /\ last_wol_sent_at # None

\* ------------------------------------------------ the prober called alone
Systems == {Windows, Linux, Darwin}
ProbeTimeouts == {-1500, -500, 0, 1, 499, 500, 501, 1000, 1499, 1500, 1501,
                  2500, 2501, 3500}

ProbeInit ==
  /\ environ = [n \in EnvNames |-> None]
  /\ system \in Systems
  /\ wol_server_ip \in {TargetHost, ReferenceHost}
  /\ network_check_host = ReferenceHost
  /\ wol_port = 9
  /\ ping_timeout_ms \in ProbeTimeouts
  /\ wol_server_mac = ValidMac
  /\ check_interval_sec = 30
  /\ wol_cooldown_sec = 300
  /\ Locals("call_probe", <<>>)

\* a call wol_up = is_host_up(wol_server_ip, ping_timeout_ms)
CallIsHostUp ==
  /\ Running("call_probe")
  /\ \E o \in PingOutcomes :
       \E r \in {is_host_up(system, wol_server_ip, ping_timeout_ms, o)} :
         /\ ping_last' = o
         /\ ping_argv' = r.argv
         /\ raised' = r.raised
         /\ wol_up' = r.ret
  /\ pc' = "probed"
  /\ tick_log' = Append(tick_log,
                        Call("is_host_up", wol_server_ip, ping_timeout_ms))
  /\ UNCHANGED <<params, network_up, prev_wol_up, last_wol_sent_at,
                 sleep_left, packet, wire, out, notices, wol_calls,
                 last_send_age, healthy_down, io_last, script, sockets_open>>

ProbeNext == CallIsHostUp

ProbeSpec == ProbeInit /\ [][ProbeNext]_vars

\* C11: a call of is_host_up never ends with an exception: it returns TRUE
\* exactly when the ping command exited with status 0, and FALSE when the
\* command exited with another status or running it raised.
C11_ProbeNeverRaises ==
  pc = "probed" =>
    /\ raised = NoException
    /\ wol_up <=> ping_last = "exit_0"

\* running the ping command raised and the call returned FALSE
C11_Witness ==
  /\ pc = "probed"
  /\ ping_last \in PingRaises
  /\ raised = NoException
  /\ ~wol_up

\* C19: off Windows the ping command gets "-W" and a whole number of
\* seconds that is at least 1 and, from 1500 ms on, the integer nearest to
\* timeout_ms / 1000 (the even one of two equally near); on Windows it
\* gets "-w" and timeout_ms itself.
C19_TimeoutPassed ==
  pc = "probed" =>
    LET argv == ping_argv[1]
        given == int(argv.timeout)
    IN  /\ ~given.err
        /\ IF system = Windows
             THEN /\ argv.timeout_flag = "-w"
                  /\ given.val = ping_timeout_ms
             ELSE /\ argv.timeout_flag = "-W"
                  /\ given.val >= 1
                  /\ ping_timeout_ms < 1500 => given.val = 1
                  /\ ping_timeout_ms >= 1500 =>
                       LET off == 1000 * given.val - ping_timeout_ms
                       IN  /\ off >= -500
                           /\ off <= 500
                           /\ off \in {-500, 500} => given.val % 2 = 0

\* a timeout of 0 ms, and one halfway between 2 s and 3 s, reached ping as
\* whole seconds
C19_Witness ==
  /\ pc = "probed"
  /\ system = Linux
  /\ \/ ping_timeout_ms = 0 /\ ping_argv[1].timeout = <<"1">>
     \/ ping_timeout_ms = 2500 /\ ping_argv[1].timeout = <<"2">>

\* --------------------------------------------------- the entry point
\* what an environment variable can hold when the program starts, after
\* load_env_file: nothing, or a string
RequiredValues(ok) == {None, Some(<<>>), Some(<<" ">>), Some(ok)}
IntValues ==
  {None, Some(<<"x">>), Some(<<"0">>), Some(<<"-", "5">>),
   Some(<<" ", "7", " ">>)}

\* the state at line 132; the module-level names are not bound yet
MainInit ==
  /\ \E ip \in RequiredValues(TargetHost), mac \in RequiredValues(ValidMac),
        host \in RequiredValues(ReferenceHost),
        port \in IntValues, timeout \in IntValues,
        interval \in IntValues, cooldown \in IntValues :
       environ = [n \in EnvNames |->
                    CASE n = "WOL_SERVER_IP" -> ip
                      [] n = "WOL_SERVER_MAC" -> mac
                      [] n = "NETWORK_CHECK_HOST" -> host
                      [] n = "BROADCAST_IP" -> None
                      [] n = "WOL_PORT" -> port
                      [] n = "PING_TIMEOUT_MS" -> timeout
                      [] n = "CHECK_INTERVAL_SEC" -> interval
                      [] n = "WOL_COOLDOWN_SEC" -> cooldown]
  /\ system = Linux
  /\ wol_server_ip = <<>>
  /\ network_check_host = <<>>
  /\ wol_server_mac = <<>>
  /\ wol_port = 0
  /\ ping_timeout_ms = 0
  /\ check_interval_sec = 0
  /\ wol_cooldown_sec = 0
  /\ Locals("main", <<>>)

\* lines 132-152: the settings are read, and monitor_and_wake is entered
\* with them unless a required one is missing
Main ==
  /\ Running("main")
  /\ \E ip \in {getenv_str(environ, "WOL_SERVER_IP", None, TRUE)},
        mac \in {getenv_str(environ, "WOL_SERVER_MAC", None, TRUE)},
        host \in {getenv_str(environ, "NETWORK_CHECK_HOST", None, TRUE)} :
       IF \E r \in {ip, mac, host} : r.raised # NoException
         THEN /\ raised' = "RuntimeError"
              /\ UNCHANGED <<pc, wol_server_ip, wol_server_mac,
                             network_check_host, wol_port, ping_timeout_ms,
                             check_interval_sec, wol_cooldown_sec>>
         ELSE /\ wol_server_ip' = ip.val[1]
              /\ wol_server_mac' = mac.val[1]
              /\ network_check_host' = host.val[1]
              /\ wol_port' = getenv_int(environ, "WOL_PORT", 9)
              /\ ping_timeout_ms' = getenv_int(environ, "PING_TIMEOUT_MS", 1000)
              /\ check_interval_sec' =
                   getenv_int(environ, "CHECK_INTERVAL_SEC", 30)
              /\ wol_cooldown_sec' =
                   getenv_int(environ, "WOL_COOLDOWN_SEC", 300)
              /\ pc' = "probe_network"
              /\ UNCHANGED raised
  /\ UNCHANGED <<environ, system, ping, network_up, wol_up, prev_wol_up,
                 last_wol_sent_at, sleep_left, packet, wire, out, notices,
                 wol_calls, last_send_age, healthy_down, io_last, script,
                 tick_log, sockets_open>>

\* the entry point and the first tick of the loop it starts
MainNext ==
  \/ Main
  \/ ProbeNetwork
  \/ ProbeTarget
  \/ StateChange
  \/ Decide
  \/ Send
  \/ Record
  \/ Sleep

MainSpec == MainInit /\ [][MainNext]_vars

Required == {"WOL_SERVER_IP", "WOL_SERVER_MAC", "NETWORK_CHECK_HOST"}

\* a setting is missing (unset) or blank (nothing but whitespace)
MissingOrBlank(n) ==
  \/ environ[n] = None
  \/ \A i \in DOMAIN environ[n][1] : environ[n][1][i] \in Whitespace

\* C12: when one of the three required settings is missing or blank, the
\* entry point raises RuntimeError and nothing runs afterwards:
\* monitor_and_wake is never entered, no probe, no send and no sleep
\* happens.
C12_MissingSettingStopsStartup ==
  /\ []((\E n \in Required : MissingOrBlank(n)) =>
          /\ pc = "main"
          /\ raised \in {NoException, "RuntimeError"}
          /\ tick_log = <<>>
          /\ wol_calls = 0
          /\ wire = {}
          /\ sleep_left = 0)
  /\ [][(\E n \in Required : MissingOrBlank(n)) =>
          raised = NoException /\ raised' = "RuntimeError"]_vars

\* startup failed on a hardware address made of one blank
C12_Witness ==
  /\ raised = "RuntimeError"
  /\ environ["WOL_SERVER_IP"] = Some(TargetHost)
  /\ environ["WOL_SERVER_MAC"] = Some(<<" ">>)
  /\ environ["NETWORK_CHECK_HOST"] = Some(ReferenceHost)

\* C13: whatever the environment holds, monitor_and_wake is entered only
\* with wol_port > 0, ping_timeout_ms > 0, check_interval_sec > 0 and
\* wol_cooldown_sec >= 0.
C13_ConfigConstraints ==
  pc # "main" =>
    /\ wol_port > 0
    /\ ping_timeout_ms > 0
    /\ check_interval_sec > 0
    /\ wol_cooldown_sec >= 0

\* C14: the only exceptions that end monitor_and_wake are those of the
\* send on line 80; every tick without one goes on to sleep once for
\* check_interval_sec and then starts the next tick.
C14_LoopNeverInterrupted ==
  /\ [](raised # NoException => pc = "send")
  /\ [][pc = "sleep" /\ pc' # pc =>
          /\ pc' = "sleeping"
          /\ sleep_left' = check_interval_sec
          /\ tick_log' =
               Append(tick_log, Call("time.sleep", <<>>, check_interval_sec))]_vars
  /\ [][pc = "sleeping" /\ pc' # pc => pc' = "probe_network"]_vars

\* C15: whenever send_magic_packet has returned or raised, every socket it
\* opened is closed again, so none is open during any other step of the
\* loop.
C15_SocketClosed == sockets_open = 0

\* setsockopt failed on a socket that had been opened, and the socket is
\* closed
C15_Witness ==
  /\ io_last = "setsockopt_fails"
  /\ raised = "OSError"
  /\ sockets_open = 0

\* the positions in tick_log of the calls of one function
Calls(name) == {i \in DOMAIN tick_log : tick_log[i].call = name}

\* C17: in every tick the first two calls are one probe of the reference
\* host and then one probe of the target host, with the same timeout and
\* whatever the first returned; nothing else is called before the decision;
\* a tick calls send_magic_packet at most once, and takes the timestamp
\* only directly after a send that returned.
C17_TickCalls ==
  /\ pc = "probe_target" =>
       tick_log = <<Call("is_host_up", network_check_host, ping_timeout_ms)>>
  /\ pc \notin {"probe_network", "probe_target"} =>
       /\ Len(tick_log) >= 2
       /\ tick_log[1].host = network_check_host
       /\ tick_log[2].host = wol_server_ip
       /\ tick_log[1].arg = tick_log[2].arg
       /\ Calls("is_host_up") = {1, 2}
  /\ pc \in {"state_change", "decide"} => Len(tick_log) = 2
  /\ Cardinality(Calls("send_magic_packet")) <= 1
  /\ \A i \in Calls("datetime.now") :
       /\ i > 1
       /\ tick_log[i - 1].call = "send_magic_packet"
       /\ "sent" \in out

\* a second wake went out: its tick made two probes, one send and then
\* took the timestamp
C17_Witness ==
  /\ pc = "sleep"
  /\ wol_calls >= 2
  /\ Len(tick_log) = 4
  /\ tick_log[4].call = "datetime.now"

\* C18: with an address that does not normalize to 12 hexadecimal digits,
\* the first call of send_magic_packet raises ValueError and ends the
\* loop there: no datagram is ever transmitted and last_wol_sent_at stays
\* None.
C18_InvalidAddressNeverSends ==
  ~Hex12(wol_server_mac) =>
    /\ wire = {}
    /\ last_wol_sent_at = None
    /\ wol_calls <= 1
    /\ wol_calls = 1 => raised = "ValueError" /\ pc = "send"

\* C20: last_wol_sent_at is assigned by line 81 only, after a send of the
\* same tick: no other statement of the loop changes it (finding the
\* target up, an outage and a cooldown wait included), and the passing of
\* time only makes it older. So a tick that finds the target down again
\* inside the window does not go on to send, whatever happened in between.
C20_TimestampOnlyOnWake ==
  /\ [][pc' # pc /\ pc # "record" =>
          last_wol_sent_at' = last_wol_sent_at]_vars
  /\ [][pc' # pc /\ pc = "record" =>
          "sent" \in out /\ last_wol_sent_at' = Some(0)]_vars
  /\ [][pc' = pc =>
          last_wol_sent_at' \in {last_wol_sent_at, Older(last_wol_sent_at)}]_vars
  /\ [][pc = "decide" /\ last_wol_sent_at # None
          /\ last_wol_sent_at[1] < wol_cooldown_sec => pc' # "send"]_vars

\* the target went down, was woken, came up and went down again inside the
\* window: the third change of state is met with a cooldown wait, and the
\* one wake sent stays the only one
C20_Witness ==
  /\ pc = "sleep"
  /\ "cooldown" \in out
  /\ "state_change" \in out
  /\ notices >= 3
  /\ wol_calls = 1
  /\ last_wol_sent_at # None
====
